---- MODULE Spec2Model ----
(***************************************************************************)
(* A model of the CHIP-8 virtual machine of src/chip8.h and src/chip8.cpp  *)
(* (class Chip8: loadROM, emulateCycle, decrementTimers, reset) and of    *)
(* the host events of src/main.cpp that drive it (key events, reload).     *)
(*                                                                         *)
(* The VM object is the record variable chip8, one field per data member   *)
(* of class Chip8.  Two encodings keep the states small and change no      *)
(* behaviour: memory is a function on the addresses whose byte differs     *)
(* from the byte reset() leaves there (every other address of 0..4095      *)
(* reads that byte: the font at 0x050..0x09F, 0 elsewhere), and gfx is the *)
(* set of the indices whose cell is true.                                  *)
(***************************************************************************)
EXTENDS Integers, Sequences, FiniteSets, TLC

VARIABLES
    chip8,   \* the Chip8 object (src/chip8.h), a record of its data members
    rom,     \* the file the host loads: NoFile, or [len, data]
    ret,     \* the result of the last loadROM call ("none" before any call)
    opcode,  \* emulateCycle's local `opcode` of the last cycle since reset/load
    cycles,  \* emulateCycle calls since the last reset/load, up to MaxCycles
    host     \* the windows of the host (src/main.cpp) and its running handler

vars == <<chip8, rom, ret, opcode, cycles, host>>

----------------------------------------------------------------------------
(* Sizes and addresses of the program.                                     *)

MemSize == 4096
ProgStart == 512
FontBase == 80
StackSize == 16
NumKeys == 16
NumRegs == 16
ScreenW == 64
ScreenH == 32
MaxRomSize == MemSize - ProgStart
GfxSize == ScreenW * ScreenH

(* Bounds of the model.                                                    *)

\* emulateCycle calls explored after each reset/load
MaxCycles == 6

NoOpcode == -1

----------------------------------------------------------------------------
(* Fixed-width arithmetic and bit operations.                              *)

U8(v) == v % 256
U16(v) == v % 65536

Pow2(k) == << 1, 2, 4, 8, 16, 32, 64, 128 >>[k + 1]

\* bit k of the byte v
Bit(v, k) == (v \div Pow2(k)) % 2

\* the byte whose bit k is f[<<bit k of a, bit k of b>>]
BitWise(f, a, b) ==
    LET r(k) == f[<<Bit(a, k), Bit(b, k)>>] * Pow2(k)
    IN r(0) + r(1) + r(2) + r(3) + r(4) + r(5) + r(6) + r(7)

BitOr(a, b) == BitWise([pq \in {0, 1} \X {0, 1} |-> IF pq[1] + pq[2] > 0 THEN 1 ELSE 0], a, b)
BitAnd(a, b) == BitWise([pq \in {0, 1} \X {0, 1} |-> pq[1] * pq[2]], a, b)
BitXor(a, b) == BitWise([pq \in {0, 1} \X {0, 1} |-> (pq[1] + pq[2]) % 2], a, b)

----------------------------------------------------------------------------
(* The font table and the memory encoding.                                 *)

font ==
    << 240, 144, 144, 144, 240,   \* 0
       32, 96, 32, 32, 112,       \* 1
       240, 16, 240, 128, 240,    \* 2
       240, 16, 240, 16, 240,     \* 3
       144, 144, 240, 16, 16,     \* 4
       240, 128, 240, 16, 240,    \* 5
       240, 128, 240, 144, 240,   \* 6
       240, 16, 32, 64, 64,       \* 7
       240, 144, 240, 144, 240,   \* 8
       240, 144, 240, 16, 240,    \* 9
       240, 144, 240, 144, 144,   \* A
       224, 144, 224, 144, 224,   \* B
       240, 128, 128, 128, 240,   \* C
       224, 144, 144, 144, 224,   \* D
       240, 128, 240, 128, 240,   \* E
       240, 128, 240, 128, 128 >> \* F

\* the byte that `memory.fill(0); initFont();` leaves at address a
ResetByte(a) ==
    IF a \in FontBase .. FontBase + Len(font) - 1 THEN font[a - FontBase + 1] ELSE 0

\* the byte at address a of the memory array m, a in 0..MemSize-1
Mem(m, a) == IF a \in DOMAIN m THEN m[a] ELSE ResetByte(a)

\* m with m[a] = b, for a in 0..MemSize-1
MemPut(m, a, b) ==
    IF b = ResetByte(a)
    THEN [k \in DOMAIN m \ {a} |-> m[k]]
    ELSE [k \in DOMAIN m \cup {a} |-> IF k = a THEN b ELSE m[k]]

\* m with m[a] = w[a] for every address a of DOMAIN w, all in 0..MemSize-1
MemPutAll(m, w) ==
    [k \in (DOMAIN m \ DOMAIN w) \cup {a \in DOMAIN w : w[a] # ResetByte(a)} |->
        IF k \in DOMAIN w THEN w[k] ELSE m[k]]

\* memory.fill(0)
ZeroMemory == [k \in {a \in 0..MemSize - 1 : ResetByte(a) # 0} |-> 0]

\* Chip8::initFont on memory m: memory[0x050 + i] = font[i]
initFont(m) ==
    [k \in DOMAIN m \ (FontBase .. FontBase + Len(font) - 1) |-> m[k]]

----------------------------------------------------------------------------
(* Construction and reset.                                                 *)

\* memory.fill(0) followed by initFont()
FontMemory == initFont(ZeroMemory)

\* the data members as their default member initializers leave them, then
\* the constructor's initFont()
Constructed ==
    [ gfx |-> {},
      keys |-> [k \in 0..NumKeys - 1 |-> FALSE],
      drawFlag |-> FALSE,
      beepFlag |-> FALSE,
      memory |-> FontMemory,
      V |-> [r \in 0..NumRegs - 1 |-> 0],
      I |-> 0,
      PC |-> ProgStart,
      stack |-> [k \in 0..StackSize - 1 |-> 0],
      sp |-> 0,
      delay_timer |-> 0,
      sound_timer |-> 0 ]

\* Chip8::reset applied to the object s
ResetNoFont(s) ==
    [ s EXCEPT !.memory = ZeroMemory,
               !.V = [r \in 0..NumRegs - 1 |-> 0],
               !.gfx = {},
               !.keys = [k \in 0..NumKeys - 1 |-> FALSE],
               !.stack = [k \in 0..StackSize - 1 |-> 0],
               !.I = 0,
               !.PC = ProgStart,
               !.sp = 0,
               !.delay_timer = 0,
               !.sound_timer = 0,
               !.drawFlag = FALSE,
               !.beepFlag = FALSE ]

reset(s) ==
    [ s EXCEPT !.memory = FontMemory,
               !.V = [r \in 0..NumRegs - 1 |-> 0],
               !.gfx = {},
               !.keys = [k \in 0..NumKeys - 1 |-> FALSE],
               !.stack = [k \in 0..StackSize - 1 |-> 0],
               !.I = 0,
               !.PC = ProgStart,
               !.sp = 0,
               !.delay_timer = 0,
               !.sound_timer = 0,
               !.drawFlag = FALSE,
               !.beepFlag = FALSE ]

----------------------------------------------------------------------------
(* Accesses to the arrays.  An index outside an array is undefined          *)
(* behaviour: a read yields any of a few representative values (nd.rd,     *)
(* nd.rdw, nd.rdb), a write either has no effect on the modelled members    *)
(* or lands in the data member declared right after the array (nd.wr).     *)

UBBytes == {0, 1, 255}
UBWords == {0, ProgStart, 65535}
UBWrites == {"dropped", "adjacent"}

SetV(s, r, v) == [s EXCEPT !.V[r] = v]

\* memory[a] as an rvalue
MemRead(s, a, nd) == IF a < MemSize THEN Mem(s.memory, a) ELSE nd.rd

\* memory[a] = b; V is the member that follows memory in class Chip8
MemWrite(s, a, b, nd) ==
    IF a < MemSize
    THEN [s EXCEPT !.memory = MemPut(s.memory, a, b)]
    ELSE IF nd.wr = "adjacent" /\ a - MemSize < NumRegs
         THEN SetV(s, a - MemSize, b)
         ELSE s

\* stack[i] as an rvalue
StackRead(s, i, nd) == IF i < StackSize THEN s.stack[i] ELSE nd.rdw

\* stack[i] = v; sp, delay_timer and sound_timer follow stack in class Chip8
StackWrite(s, i, v, nd) ==
    IF i < StackSize
    THEN [s EXCEPT !.stack[i] = v]
    ELSE IF nd.wr = "adjacent" /\ i = StackSize
         THEN [s EXCEPT !.sp = v % 256, !.delay_timer = v \div 256]
         ELSE IF nd.wr = "adjacent" /\ i = StackSize + 1
              THEN [s EXCEPT !.sound_timer = v % 256]
              ELSE s

\* keys[k] as an rvalue
KeyRead(s, k, nd) == IF k < NumKeys THEN s.keys[k] ELSE nd.rdb

----------------------------------------------------------------------------
(* Decoding.                                                               *)

OpX(op) == (op \div 256) % 16
OpY(op) == (op \div 16) % 16
OpN(op) == op % 16
OpNN(op) == op % 256
OpNNN(op) == op % 4096
OpClass(op) == op \div 4096

----------------------------------------------------------------------------
(* The 8xyN group.                                                         *)

\* a slip that sets the flag before the sum is stored (the order of 8xy5)
Add8xy4FlagFirst(s, x, y) ==
    LET sum == s.V[x] + s.V[y]
        s1 == SetV(s, 15, IF sum > 255 THEN 1 ELSE 0)
    IN SetV(s1, x, sum % 256)

Add8xy4(s, x, y) ==
    LET sum == s.V[x] + s.V[y]
        s1 == SetV(s, x, sum % 256)
    IN SetV(s1, 15, IF sum > 255 THEN 1 ELSE 0)

Sub8xy5(s, x, y) ==
    LET s1 == SetV(s, 15, IF s.V[x] >= s.V[y] THEN 1 ELSE 0)
    IN SetV(s1, x, U8(s1.V[x] - s1.V[y] + 256))

Shr8xy6(s, x) ==
    LET s1 == SetV(s, 15, s.V[x] % 2)
    IN SetV(s1, x, s1.V[x] \div 2)

Subn8xy7(s, x, y) ==
    LET s1 == SetV(s, 15, IF s.V[y] >= s.V[x] THEN 1 ELSE 0)
    IN SetV(s1, x, U8(s1.V[y] - s1.V[x] + 256))

Shl8xyE(s, x) ==
    LET s1 == SetV(s, 15, (s.V[x] \div 128) % 2)
    IN SetV(s1, x, U8(s1.V[x] * 2))

Alu(s, op) ==
    LET x == OpX(op)
        y == OpY(op)
        n == OpN(op)
    IN CASE n = 0 -> SetV(s, x, s.V[y])
         [] n = 1 -> SetV(s, x, BitOr(s.V[x], s.V[y]))
         [] n = 2 -> SetV(s, x, BitAnd(s.V[x], s.V[y]))
         [] n = 3 -> SetV(s, x, BitXor(s.V[x], s.V[y]))
         [] n = 4 -> Add8xy4(s, x, y)
         [] n = 5 -> Sub8xy5(s, x, y)
         [] n = 6 -> Shr8xy6(s, x)
         [] n = 7 -> Subn8xy7(s, x, y)
         [] n = 14 -> Shl8xyE(s, x)
         [] OTHER -> s

----------------------------------------------------------------------------
(* Dxyn.  The two loops visit each (row, col) once and                     *)
(* (vy + row) * 64 + (vx + col) differs for different (row, col), so no     *)
(* cell is flipped twice: the loops flip the cells of `hits` and set VF    *)
(* when one of them was true.                                              *)

\* the index the inner loop computes for (row, col)
PixelIndex(vx, vy, row, col) == (vy + row) * ScreenW + (vx + col)

\* the guard `idx < 64 * 32`
Clip(idx) == idx < GfxSize

\* the cells the loops reach: set bits of the n sprite rows that pass the guard
Hits(s, vx, vy, n, nd) ==
    { PixelIndex(vx, vy, rc[1], rc[2]) :
        rc \in { rc \in (0..n - 1) \X (0..7) :
                   /\ Bit(MemRead(s, s.I + rc[1], nd), 7 - rc[2]) # 0
                   /\ Clip(PixelIndex(vx, vy, rc[1], rc[2])) } }

\* a slip that sets the cells instead of flipping them
FlipSet(gfx, hits) == gfx \cup hits

\* `gfx[idx] ^= true` for every idx of hits
Flip(gfx, hits) == (gfx \ hits) \cup (hits \ gfx)

\* a slip that does not clear VF before the loops
DrawKeepVF(s, op, nd) ==
    LET vx == s.V[OpX(op)] % ScreenW
        vy == s.V[OpY(op)] % ScreenH
        hits == Hits(s, vx, vy, OpN(op), nd)
    IN [s EXCEPT !.V[15] = IF hits \cap s.gfx # {} THEN 1 ELSE @,
                 !.gfx = Flip(@, hits),
                 !.drawFlag = TRUE]

Draw(s, op, nd) ==
    LET s1 == SetV(s, 15, 0)
        vx == s1.V[OpX(op)] % ScreenW
        vy == s1.V[OpY(op)] % ScreenH
        hits == Hits(s1, vx, vy, OpN(op), nd)
    IN [s1 EXCEPT !.V[15] = IF hits \cap s1.gfx # {} THEN 1 ELSE @,
                  !.gfx = Flip(@, hits),
                  !.drawFlag = TRUE]

----------------------------------------------------------------------------
(* The Fx group's loops.                                                   *)

\* a slip that leaves the loop at the first pressed key
ScannedKeyFirst(pressed) == CHOOSE k \in pressed : \A j \in pressed : k <= j

\* the key Fx0A's loop leaves in V[x]: it visits 0..15 in order and every
\* pressed key overwrites V[x], so the last one, the largest, stays
ScannedKey(pressed) == CHOOSE k \in pressed : \A j \in pressed : j <= k

\* a slip that does not repeat the instruction when no key is pressed
WaitKeyNoRepeat(s, x) ==
    LET pressed == {i \in 0..NumKeys - 1 : s.keys[i]}
    IN IF pressed = {} THEN s ELSE SetV(s, x, ScannedKey(pressed))

\* a slip that takes the key press off the keypad once it is read
WaitKeyConsume(s, x) ==
    LET pressed == {i \in 0..NumKeys - 1 : s.keys[i]}
    IN IF pressed = {}
       THEN [s EXCEPT !.PC = U16(@ + 65536 - 2)]
       ELSE [SetV(s, x, ScannedKey(pressed)) EXCEPT
               !.keys[ScannedKey(pressed)] = FALSE]

WaitKey(s, x) ==
    LET pressed == {i \in 0..NumKeys - 1 : s.keys[i]}
        keyPressed == pressed # {}
    IN IF ~keyPressed
       THEN [s EXCEPT !.PC = U16(@ + 65536 - 2)]
       ELSE SetV(s, x, ScannedKey(pressed))

\* a slip that stores Vx div 10 as the middle digit
BcdTensRaw(s, x, nd) ==
    LET s1 == MemWrite(s, s.I, s.V[x] \div 100, nd)
        s2 == MemWrite(s1, s1.I + 1, s1.V[x] \div 10, nd)
    IN MemWrite(s2, s2.I + 2, s2.V[x] % 10, nd)

Bcd(s, x, nd) ==
    LET s1 == MemWrite(s, s.I, s.V[x] \div 100, nd)
        s2 == MemWrite(s1, s1.I + 1, (s1.V[x] \div 10) % 10, nd)
    IN MemWrite(s2, s2.I + 2, s2.V[x] % 10, nd)

\* a slip that leaves I as it was (the behaviour of later interpreters)
StoreRegsKeepI(s, x, nd) ==
    [s EXCEPT
       !.memory = MemPutAll(@, [a \in {s.I + i : i \in {j \in 0..x : s.I + j < MemSize}}
                                  |-> s.V[a - s.I]])]

\* Fx55: memory[I + i] = V[i] for i in 0..x, then I += x + 1; the writes
\* past the memory either vanish or land in V, the member after memory
StoreRegs(s, x, nd) ==
    LET inside == {i \in 0..x : s.I + i < MemSize}
        landed == IF nd.wr = "adjacent"
                  THEN {i \in 0..x : s.I + i >= MemSize /\ s.I + i - MemSize < NumRegs}
                  ELSE {}
    IN [s EXCEPT
          !.memory = MemPutAll(@, [a \in {s.I + i : i \in inside} |-> s.V[a - s.I]]),
          !.V = [r \in 0..NumRegs - 1 |->
                   IF r + MemSize - s.I \in landed
                   THEN s.V[r + MemSize - s.I] ELSE s.V[r]],
          !.I = U16(@ + x + 1)]

\* a slip that leaves I as it was (the behaviour of later interpreters)
LoadRegsKeepI(s, x, nd) ==
    [s EXCEPT
       !.V = [r \in 0..NumRegs - 1 |->
                IF r <= x THEN MemRead(s, s.I + r, nd) ELSE s.V[r]]]

\* Fx65: V[i] = memory[I + i] for i in 0..x, then I += x + 1
LoadRegs(s, x, nd) ==
    [s EXCEPT
       !.V = [r \in 0..NumRegs - 1 |->
                IF r <= x THEN MemRead(s, s.I + r, nd) ELSE s.V[r]],
       !.I = U16(@ + x + 1)]

FGroup(s, op, nd) ==
    LET x == OpX(op)
        nn == OpNN(op)
    IN CASE nn = 7 -> SetV(s, x, s.delay_timer)
         [] nn = 10 -> WaitKey(s, x)
         [] nn = 21 -> [s EXCEPT !.delay_timer = s.V[x]]
         [] nn = 24 -> [s EXCEPT !.sound_timer = s.V[x]]
         [] nn = 30 -> [s EXCEPT !.I = U16(@ + s.V[x])]
         [] nn = 41 -> [s EXCEPT !.I = FontBase + (s.V[x] % 16) * 5]
         [] nn = 51 -> Bcd(s, x, nd)
         [] nn = 85 -> StoreRegs(s, x, nd)
         [] nn = 101 -> LoadRegs(s, x, nd)
         [] OTHER -> s

----------------------------------------------------------------------------
(* 00E0.                                                                   *)

\* a slip that clears the display without raising the changed flag
ClsNoFlag(s) == [s EXCEPT !.gfx = {}]

\* gfx.fill(false); drawFlag = true
Cls(s) == [s EXCEPT !.gfx = {}, !.drawFlag = TRUE]

----------------------------------------------------------------------------
(* Call and return.                                                        *)

\* a slip that reads stack[sp] before decrementing sp
RetReadFirst(s, nd) ==
    LET s1 == [s EXCEPT !.PC = StackRead(s, s.sp, nd)]
    IN [s1 EXCEPT !.sp = U8(@ + 256 - 1)]

Ret(s, nd) ==
    LET s1 == [s EXCEPT !.sp = U8(@ + 256 - 1)]
    IN [s1 EXCEPT !.PC = StackRead(s1, s1.sp, nd)]

Call(s, op, nd) ==
    LET s1 == StackWrite(s, s.sp, s.PC, nd)
        s2 == [s1 EXCEPT !.sp = U8(@ + 1)]
    IN [s2 EXCEPT !.PC = OpNNN(op)]

----------------------------------------------------------------------------
(* emulateCycle after the fetch: PC += 2, then the switch.                 *)

\* a slip that skips when the condition does not hold
SkipInverted(s, taken) == IF taken THEN s ELSE [s EXCEPT !.PC = U16(@ + 2)]

\* `if (cond) PC += 2;` of the skip instructions
Skip(s, taken) == IF taken THEN [s EXCEPT !.PC = U16(@ + 2)] ELSE s

Execute(s0, op, nd) ==
    LET s == [s0 EXCEPT !.PC = U16(@ + 2)]
        x == OpX(op)
        y == OpY(op)
        nn == OpNN(op)
        nnn == OpNNN(op)
        c == OpClass(op)
    IN CASE c = 0 ->
              IF op = 224 THEN Cls(s)
              ELSE IF op = 238 THEN Ret(s, nd)
              ELSE s
         [] c = 1 -> [s EXCEPT !.PC = nnn]
         [] c = 2 -> Call(s, op, nd)
         [] c = 3 -> Skip(s, s.V[x] = nn)
         [] c = 4 -> Skip(s, s.V[x] # nn)
         [] c = 5 -> Skip(s, s.V[x] = s.V[y])
         [] c = 6 -> SetV(s, x, nn)
         [] c = 7 -> SetV(s, x, U8(s.V[x] + nn))
         [] c = 8 -> Alu(s, op)
         [] c = 9 -> Skip(s, s.V[x] # s.V[y])
         [] c = 10 -> [s EXCEPT !.I = nnn]
         [] c = 11 -> [s EXCEPT !.PC = nnn + s.V[0]]
         [] c = 12 -> SetV(s, x, BitAnd(nd.rnd, nn))
         [] c = 13 -> Draw(s, op, nd)
         [] c = 14 ->
              IF nn = 158
              THEN Skip(s, KeyRead(s, s.V[x], nd))
              ELSE IF nn = 161
              THEN Skip(s, ~KeyRead(s, s.V[x], nd))
              ELSE s
         [] OTHER -> FGroup(s, op, nd)

(* The values the undefined reads and writes of one cycle may take, and    *)
(* the byte Cxnn draws: one choice each, only where the cycle uses it.      *)

ReadsMemoryOutside(s, op) ==
    \/ OpClass(op) = 13 /\ OpN(op) > 0 /\ s.I + OpN(op) - 1 >= MemSize
    \/ OpClass(op) = 15 /\ OpNN(op) = 101 /\ s.I + OpX(op) >= MemSize

WritesOutside(s, op) ==
    \/ OpClass(op) = 2 /\ s.sp >= StackSize
    \/ OpClass(op) = 15 /\ OpNN(op) = 51 /\ s.I + 2 >= MemSize
    \/ OpClass(op) = 15 /\ OpNN(op) = 85 /\ s.I + OpX(op) >= MemSize

ReadsStackOutside(s, op) == op = 238 /\ U8(s.sp + 256 - 1) >= StackSize

ReadsKeysOutside(s, op) ==
    OpClass(op) = 14 /\ OpNN(op) \in {158, 161} /\ s.V[OpX(op)] >= NumKeys

Choices(s, op) ==
    [ rd : IF ReadsMemoryOutside(s, op) THEN UBBytes ELSE {0},
      rdw : IF ReadsStackOutside(s, op) THEN UBWords ELSE {0},
      rdb : IF ReadsKeysOutside(s, op) THEN BOOLEAN ELSE {FALSE},
      wr : IF WritesOutside(s, op) THEN UBWrites ELSE {"dropped"},
      rnd : IF OpClass(op) = 12 THEN 0..255 ELSE {0} ]

\* a slip that reads the word low byte first
FetchLittleEndian(s) ==
    { lo * 256 + hi :
        hi \in (IF s.PC < MemSize THEN {Mem(s.memory, s.PC)} ELSE UBBytes),
        lo \in (IF s.PC + 1 < MemSize THEN {Mem(s.memory, s.PC + 1)} ELSE UBBytes) }

\* the words `(memory[PC] << 8) | memory[PC + 1]` may give
Fetch(s) ==
    { hi * 256 + lo :
        hi \in (IF s.PC < MemSize THEN {Mem(s.memory, s.PC)} ELSE UBBytes),
        lo \in (IF s.PC + 1 < MemSize THEN {Mem(s.memory, s.PC + 1)} ELSE UBBytes) }

----------------------------------------------------------------------------
(* loadROM and decrementTimers.                                            *)

NoFile == [len |-> -1, data |-> <<>>]

\* byte i of the file f
FileByte(f, i) == IF i \in DOMAIN f.data THEN f.data[i] ELSE 0

\* file.read(&memory[0x200], size) on memory m
ReadFile(m, f) ==
    LET at == { ProgStart + i :
                  i \in {j \in DOMAIN f.data :
                           j < f.len /\ f.data[j] # ResetByte(ProgStart + j)} }
    IN [k \in (DOMAIN m \ (ProgStart .. ProgStart + f.len - 1)) \cup at |->
          IF k \in at THEN f.data[k - ProgStart] ELSE m[k]]

\* a slip that tests `size >= 4096 - 0x200`
TooBigOffByOne(f) == f.len >= MaxRomSize

\* `size > 4096 - 0x200`
TooBig(f) == f.len > MaxRomSize

\* a slip that copies the file before testing its size
loadROMCopyFirst(s, f) ==
    LET s1 == reset(s)
    IN IF f = NoFile THEN [s |-> s1, ret |-> FALSE]
       ELSE IF TooBig(f)
       THEN [s |-> [s1 EXCEPT !.memory =
                       ReadFile(s1.memory, [f EXCEPT !.len = MaxRomSize])],
             ret |-> FALSE]
       ELSE [s |-> [s1 EXCEPT !.memory = ReadFile(s1.memory, f)], ret |-> TRUE]

\* Chip8::loadROM on the object s and the file f: the object and the result
loadROM(s, f) ==
    LET s1 == reset(s)
    IN IF f = NoFile THEN [s |-> s1, ret |-> FALSE]
       ELSE IF TooBig(f) THEN [s |-> s1, ret |-> FALSE]
       ELSE [s |-> [s1 EXCEPT !.memory = ReadFile(s1.memory, f)], ret |-> TRUE]

\* a slip that decrements the uint8_t delay timer without testing it
decrementTimersWrap(s) ==
    LET s1 == [s EXCEPT !.delay_timer = U8(@ + 256 - 1)]
    IN IF s1.sound_timer > 0
       THEN [s1 EXCEPT !.sound_timer = @ - 1, !.beepFlag = TRUE]
       ELSE [s1 EXCEPT !.beepFlag = FALSE]

\* a slip that asks for a repaint at every tick
decrementTimersRedraw(s) ==
    LET s1 == IF s.delay_timer > 0 THEN [s EXCEPT !.delay_timer = @ - 1] ELSE s
    IN IF s1.sound_timer > 0
       THEN [s1 EXCEPT !.sound_timer = @ - 1, !.beepFlag = TRUE, !.drawFlag = TRUE]
       ELSE [s1 EXCEPT !.beepFlag = FALSE, !.drawFlag = TRUE]

decrementTimers(s) ==
    LET s1 == IF s.delay_timer > 0 THEN [s EXCEPT !.delay_timer = @ - 1] ELSE s
    IN IF s1.sound_timer > 0
       THEN [s1 EXCEPT !.sound_timer = @ - 1, !.beepFlag = TRUE]
       ELSE [s1 EXCEPT !.beepFlag = FALSE]

----------------------------------------------------------------------------
(* The operations, as actions on the one Chip8 object of the host.         *)

\* the keypad keys the host's user touches
HostKeys == {3, 7}

\* the launcher alone: no game window, no handler running, nothing called
NoGames ==
    [ canvases |-> << >>,     \* one Chip8Canvas per game window opened
      at |-> 0,               \* the canvas whose OnTimer is running, 0 if none
      i |-> 0,                \* OnTimer's loop variable
      cyclesToRun |-> 0,      \* OnTimer's local cyclesToRun
      steps |-> 0,            \* emulateCycle calls of the last timer event
      ticks |-> 0,            \* decrementTimers calls of the last timer event
      periodTicks |-> 0 ]     \* decrementTimers calls of this 60 Hz period

\* Chip8FrameWithCanvas::OnReset: chip8->loadROM(currentROMPath)
LoadROM ==
    LET r == loadROM(chip8, rom)
    IN /\ chip8' = r.s
       /\ ret' = (IF r.ret THEN "true" ELSE "false")
       /\ opcode' = NoOpcode
       /\ cycles' = 0
       /\ UNCHANGED <<rom, host>>

Reset ==
    /\ chip8' = reset(chip8)
    /\ opcode' = NoOpcode
    /\ cycles' = 0
    /\ UNCHANGED <<rom, ret, host>>

EmulateCycle ==
    /\ cycles < MaxCycles
    /\ \E op \in Fetch(chip8) :
         \E nd \in Choices(chip8, op) :
            /\ chip8' = Execute(chip8, op, nd)
            /\ opcode' = op
    /\ cycles' = cycles + 1
    /\ UNCHANGED <<rom, ret, host>>

DecrementTimers ==
    /\ chip8' = decrementTimers(chip8)
    /\ UNCHANGED <<rom, ret, opcode, cycles, host>>

\* a slip that latches a press: the flag stays set after the release
SetKeySticky(s, key, pressed) == [s EXCEPT !.keys[key] = @ \/ pressed]

\* `chip8.keys[key] = pressed`
SetKey(s, key, pressed) == [s EXCEPT !.keys[key] = pressed]

\* Chip8Canvas::MapKey on a mapped key: chip8.keys[key] = pressed
MapKey(key, pressed) ==
    /\ chip8' = SetKey(chip8, key, pressed)
    /\ UNCHANGED <<rom, ret, opcode, cycles, host>>

OnKeyDown == \E key \in HostKeys : MapKey(key, TRUE)

OnKeyUp == \E key \in HostKeys : MapKey(key, FALSE)

Next ==
    \/ LoadROM
    \/ Reset
    \/ EmulateCycle
    \/ DecrementTimers
    \/ OnKeyDown
    \/ OnKeyUp

\* the state after `std::make_unique<Chip8>()`, with the file f to load
InitWith(files) ==
    /\ chip8 = Constructed
    /\ rom \in files
    /\ ret = "none"
    /\ opcode = NoOpcode
    /\ cycles = 0
    /\ host = NoGames

----------------------------------------------------------------------------
(* Program images.                                                         *)

\* the file holding the bytes bs
FileOf(bs) ==
    [len |-> Len(bs),
     data |-> [i \in {j \in 0..Len(bs) - 1 : bs[j + 1] # 0} |-> bs[i + 1]]]

\* the big-endian bytes of the opcode words ws
Bytes(ws) ==
    [i \in 1..2 * Len(ws) |->
        IF i % 2 = 1 THEN ws[(i + 1) \div 2] \div 256 ELSE ws[i \div 2] % 256]

\* a file of len bytes: the bytes bs, zeros, and a last byte of 255
Padded(bs, len) ==
    [len |-> len,
     data |-> [i \in {j \in 0..Len(bs) - 1 : bs[j + 1] # 0} \cup {len - 1} |->
                 IF i < Len(bs) THEN bs[i + 1] ELSE 255]]

AluVals == {3, 200, 255}

\* 6xaa, 6ybb, 8xyn for every x, y and every aa, bb of AluVals
AluRoms(n) ==
    { FileOf(Bytes(<< \h6000 + x * 256 + a, \h6000 + y * 256 + b,
                      \h8000 + x * 256 + y * 16 + n >>)) :
        <<x, y, a, b>> \in (0..15) \X (0..15) \X AluVals \X AluVals }

InitAdd == InitWith(AluRoms(4))
SpecAdd == InitAdd /\ [][Next]_vars

InitSub == InitWith(AluRoms(5))
SpecSub == InitSub /\ [][Next]_vars

DrawSelectors == {0, 1, 15}
DrawXs == {0, 57, 60, 63, 69}
DrawYs == {0, 30, 31, 35}
DrawRows == 0..3
DrawSprites == { <<0, 0, 0>>, <<255, 129, 1>>, <<128, 0, 195>> }

\* 6xaa, 6ybb, A20A, Dxyn, Dxyn and, at 0x20A, the three bytes of a sprite
DrawRoms ==
    { FileOf(Bytes(<< \h6000 + x * 256 + a, \h6000 + y * 256 + b, \hA20A,
                      \hD000 + x * 256 + y * 16 + n,
                      \hD000 + x * 256 + y * 16 + n >>) \o sprite) :
        <<x, y, a, b, n, sprite>> \in
            DrawSelectors \X DrawSelectors \X DrawXs \X DrawYs \X DrawRows
                \X DrawSprites }

InitDraw == InitWith(DrawRoms)
SpecDraw == InitDraw /\ [][Next]_vars

\* programs that leave no member of the object at its reset value
DirtyA == Bytes(<< \h60AA, \hF018, \hA050, \hD005, \h220C, \h0000, \hF055 >>)
DirtyB == Bytes(<< \h60AA, \hF015, \hA300, \hF033, \hF01E, \h00E0 >>)

\* files around the largest size loadROM accepts, and a file that is missing
LoadRoms ==
    { FileOf(DirtyA), FileOf(DirtyB), FileOf(<< >>), NoFile,
      Padded(DirtyA, MaxRomSize - 1), Padded(DirtyA, MaxRomSize),
      Padded(DirtyA, MaxRomSize + 1), Padded(DirtyB, MaxRomSize),
      Padded(DirtyB, MaxRomSize + 1), Padded(DirtyB, MaxRomSize + 2) }

InitLoad == InitWith(LoadRoms)
SpecLoad == InitLoad /\ [][Next]_vars

\* programs for the timers, the stack and the index register
Programs ==
    { << \h6002, \hF018, \hF015, \hF007 >>,           \* sound and delay timers
      << \h6001, \hF018, \h1204 >>,                   \* sound timer, then spin
      << \h00EE >>,                                   \* return, nothing called
      << \h2204, \h1200, \h00EE >>,                   \* call, return, repeat
      << \h2200 >>,                                   \* calls itself
      << \h60E7, \hAFFF, \hF033 >>,                   \* BCD at the last byte
      << \hAFFE, \hF155 >>,                           \* store at the last bytes
      << \h60FF, \hAFFF, \hF01E, \hF055, \hF065 >>,   \* I past the memory
      << \h6010, \hE09E, \hE0A1 >>,                   \* key 0x10
      << \hF00A, \hE09E, \hE0A1, \hC103 >>,           \* wait for a key, random
      << \h1FFE >> }                                  \* jump to the last word

Roms == { FileOf(Bytes(ws)) : ws \in Programs }

Init == InitWith(Roms)
Spec == Init /\ [][Next]_vars

----------------------------------------------------------------------------
(* What the properties below read off a state.                             *)

\* the word at PC, for a PC whose two bytes lie inside the memory
WordAtPC == Mem(chip8.memory, chip8.PC) * 256 + Mem(chip8.memory, chip8.PC + 1)

\* a cycle that fetches the word op from inside the memory
Cycle(op) == EmulateCycle /\ chip8.PC + 1 < MemSize /\ WordAtPC = op

\* a cycle that fetches an 8xyN word
AluCycle(n) ==
    /\ EmulateCycle
    /\ chip8.PC + 1 < MemSize
    /\ OpClass(WordAtPC) = 8
    /\ OpN(WordAtPC) = n

\* a cycle that fetches a Dxyn word whose sprite rows lie inside the memory
DrawCycle ==
    /\ EmulateCycle
    /\ chip8.PC + 1 < MemSize
    /\ OpClass(WordAtPC) = 13
    /\ chip8.I + OpN(WordAtPC) <= MemSize

\* every member but the memory holds the value reset() is documented to leave
RestIsReset(s) ==
    /\ s.V = [r \in 0..15 |-> 0]
    /\ s.I = 0
    /\ s.stack = [k \in 0..15 |-> 0]
    /\ s.sp = 0
    /\ s.delay_timer = 0
    /\ s.sound_timer = 0
    /\ s.PC = 512
    /\ s.gfx = {}
    /\ s.keys = [k \in 0..15 |-> FALSE]
    /\ s.drawFlag = FALSE
    /\ s.beepFlag = FALSE

\* the state reset() is documented to leave, member by member
IsResetState(s) ==
    /\ \A a \in 0..MemSize - 1 :
          Mem(s.memory, a) =
             IF a \in FontBase..FontBase + 79 THEN font[a - FontBase + 1] ELSE 0
    /\ DOMAIN s.memory \subseteq 0..MemSize - 1
    /\ RestIsReset(s)

----------------------------------------------------------------------------
(* C1: 8xy4: VF = 1 exactly when old Vx + old Vy > 255, and Vx = the sum   *)
(* mod 256, for every x and y in 0..F.                                     *)

\* C1 as stated: for every x and y, after 8xy4 VF is the carry of the old
\* Vx + Vy and Vx is that sum mod 256
C1_AddEveryX ==
    [][ AluCycle(4) =>
          LET x == OpX(WordAtPC)
              y == OpY(WordAtPC)
              sum == chip8.V[x] + chip8.V[y]
          IN /\ chip8'.V[15] = (IF sum > 255 THEN 1 ELSE 0)
             /\ chip8'.V[x] = sum % 256 ]_vars

\* C1 amended: for every x and y, after 8xy4 VF is the carry of the old
\* Vx + Vy; Vx is that sum mod 256 for every x other than F (with x = F the
\* register holds the carry)
C1_Add ==
    [][ AluCycle(4) =>
          LET x == OpX(WordAtPC)
              y == OpY(WordAtPC)
              sum == chip8.V[x] + chip8.V[y]
          IN /\ chip8'.V[15] = (IF sum > 255 THEN 1 ELSE 0)
             /\ x # 15 => chip8'.V[x] = sum % 256 ]_vars

\* 8FF4 has run on VF = 200: the sum 400 carries, and VF holds the carry, not 144
C1_Witness ==
    /\ opcode = \h8FF4
    /\ rom = FileOf(Bytes(<< \h6FC8, \h6FC8, \h8FF4 >>))
    /\ chip8.V[15] = 1

----------------------------------------------------------------------------
(* C2: 8xy5: VF = 1 exactly when old Vx >= old Vy, and Vx = (old Vx - old  *)
(* Vy) mod 256, both from the values held before the instruction.          *)

\* C2 for the selectors x other than F (Vx and VF are two registers): after
\* 8xy5 VF is 1 exactly when old Vx >= old Vy and Vx is (old Vx - old Vy)
\* mod 256
C2_Sub ==
    [][ AluCycle(5) /\ OpX(WordAtPC) # 15 =>
          LET x == OpX(WordAtPC)
              y == OpY(WordAtPC)
          IN /\ chip8'.V[15] = (IF chip8.V[x] >= chip8.V[y] THEN 1 ELSE 0)
             /\ chip8'.V[x] = (chip8.V[x] - chip8.V[y] + 256) % 256 ]_vars

----------------------------------------------------------------------------
(* C3: on an all-false display a Dxyn whose sprite lies fully on-screen    *)
(* sets exactly the pixels of the sprite's set bits and leaves VF = 0; the *)
(* same Dxyn executed again returns the display to all-false with VF = 1.  *)

\* the value Dxyn uses of register r: VF is cleared before the origin is read
DrawOperand(r) == IF r = 15 THEN 0 ELSE chip8.V[r]

OriginX == DrawOperand(OpX(WordAtPC)) % 64
OriginY == DrawOperand(OpY(WordAtPC)) % 32

\* bit col (0 the leftmost) of sprite row `row` is set
SpriteBit(row, col) ==
    (Mem(chip8.memory, chip8.I + row) \div Pow2(7 - col)) % 2 = 1

\* the cells of the sprite's set bits, the sprite's corner at the origin
SpritePixels ==
    { (OriginY + row) * 64 + OriginX + col :
        <<row, col>> \in { rc \in (0..OpN(WordAtPC) - 1) \X (0..7) :
                             SpriteBit(rc[1], rc[2]) } }

FullyOnScreen == OriginX + 8 <= 64 /\ OriginY + OpN(WordAtPC) <= 32

\* the cycle before this one executed the word at PC: the same Dxyn again
SameAgain == opcode = WordAtPC

----------------------------------------------------------------------------
(* C4: a set sprite bit whose target column is >= 64 or whose target row   *)
(* is >= 32 changes no display cell.                                       *)

\* the cells of the set bits whose target (column, row) is on the screen
OnScreenTargets ==
    { (OriginY + row) * 64 + OriginX + col :
        <<row, col>> \in { rc \in (0..OpN(WordAtPC) - 1) \X (0..7) :
                             /\ SpriteBit(rc[1], rc[2])
                             /\ OriginX + rc[2] < 64
                             /\ OriginY + rc[1] < 32 } }

\* C4: Dxyn changes only cells that are the target of a set bit whose
\* column is below 64 and whose row is below 32
C4_Clipped ==
    [][ DrawCycle =>
          \A idx \in 0..GfxSize - 1 :
             (idx \in chip8'.gfx) # (idx \in chip8.gfx) => idx \in OnScreenTargets
      ]_vars

----------------------------------------------------------------------------
(* C5: beepFlag is true exactly when the sound timer is above 0.           *)

\* C5: in every reachable state beepFlag = (sound_timer > 0)
C5_BeepIffSound == chip8.beepFlag = (chip8.sound_timer > 0)

----------------------------------------------------------------------------
(* C6: sp stays in 0..16 and CALL and RETURN touch only stack[0..15].      *)

\* C6: every step leaves sp in 0..16, 2nnn writes stack[sp] with sp <= 15,
\* and 00EE reads stack[sp - 1] with 1 <= sp <= 16
C6_StackInside ==
    [][ /\ chip8'.sp \in 0..16
        /\ EmulateCycle /\ chip8.PC + 1 < MemSize /\ OpClass(WordAtPC) = 2 =>
              chip8.sp \in 0..15
        /\ Cycle(\h00EE) => chip8.sp - 1 \in 0..15 ]_vars

----------------------------------------------------------------------------
(* C7: every memory write of a step targets an address in 0..4095.         *)

\* C7: Fx33 writes I, I+1, I+2 and Fx55 writes I..I+x, all in 0..4095
C7_WritesInside ==
    [][ EmulateCycle /\ chip8.PC + 1 < MemSize /\ OpClass(WordAtPC) = 15 =>
          /\ OpNN(WordAtPC) = \h33 => chip8.I + 2 <= 4095
          /\ OpNN(WordAtPC) = \h55 => chip8.I + OpX(WordAtPC) <= 4095 ]_vars

----------------------------------------------------------------------------
(* C8: loadROM of an image of L <= 3584 bytes succeeds from any state and  *)
(* leaves the image at 0x200, zeros from 0x200 + L to 0xFFF, PC = 0x200    *)
(* and every other member at its reset value; 3585 bytes are refused.      *)

\* C8: loading a file of L <= 3584 bytes returns true with memory[0x200 + i]
\* = byte i of the file for i < L, memory[0x200 + L .. 0xFFF] = 0 and all
\* other members at their reset values; loading 3585 bytes returns false
C8_LoadFits ==
    [][ /\ LoadROM /\ rom # NoFile /\ rom.len <= 3584 =>
              /\ ret' = "true"
              /\ \A i \in 0..rom.len - 1 :
                    Mem(chip8'.memory, 512 + i) = FileByte(rom, i)
              /\ \A a \in 512 + rom.len..4095 : Mem(chip8'.memory, a) = 0
              /\ RestIsReset(chip8')
        /\ LoadROM /\ rom.len = 3585 => ret' = "false" ]_vars

\* a file of exactly 3584 bytes is loaded: its last byte is at 0xFFF
C8_Witness ==
    /\ ret = "true"
    /\ rom.len = 3584
    /\ Mem(chip8.memory, 4095) = 255
    /\ Mem(chip8.memory, 512) = FileByte(rom, 0)
    /\ cycles = 0
    /\ chip8.PC = 512

----------------------------------------------------------------------------
(* C9: a loadROM that fails returns false, copies no byte of the image and *)
(* leaves the reset state, whatever the state before the call.             *)

\* C9: loading a file that is missing or longer than 3584 bytes returns
\* false and leaves exactly the reset state
C9_LoadFails ==
    [][ LoadROM /\ (rom = NoFile \/ rom.len > 3584) =>
          ret' = "false" /\ IsResetState(chip8') ]_vars

\* a file of 3585 bytes was refused: none of its bytes is in the memory
C9_Witness ==
    /\ ret = "false"
    /\ rom.len = 3585
    /\ FileByte(rom, 0) # 0
    /\ Mem(chip8.memory, 512) = 0
    /\ IsResetState(chip8)

----------------------------------------------------------------------------
(* C10: reset yields one and the same state from any state, so a second    *)
(* reset changes nothing.                                                  *)

\* C10: reset leaves memory zero but for the font at 0x050..0x09F, PC = 0x200
\* and every other member zero or false, and resetting that state again
\* gives the same state
C10_ResetOnce ==
    [][ Reset => IsResetState(chip8') /\ reset(chip8') = chip8' ]_vars

\* reset after a program was loaded: the program's bytes are gone
C10_Witness ==
    /\ ret = "true"
    /\ FileByte(rom, 0) # 0
    /\ IsResetState(chip8)

----------------------------------------------------------------------------
(* Programs that step through every kind of instruction.                   *)

\* words that match none of the patterns emulateCycle's switch names
UnknownWords ==
    { \h0000, \h00E1, \h00FF, \h0123, \h0FFF, \h5011, \h501F, \h9012, \h901E,
      \h8018, \h801D, \h801F, \hE000, \hE09F, \hE1A2, \hF000, \hF108, \hF156,
      \hF0FF }

\* 6001, then a word of UnknownWords with V0 = 1 and V1 = 0
UnknownPrograms == { << \h6001, w >> : w \in UnknownWords }

\* V0 = aa, Fx55 at 0x300, a random V0, I back at 0x300, Fx65
RoundTripPrograms ==
    { << \h6000 + a, \hA300, \hF155, \hC0FF, \hA300, \hF165 >> : a \in AluVals }

StepPrograms ==
    { << \h6005, \h7003 >>,                                   \* load, add
      << \h3000, \h0000, \h4000, \h4001, \h0000, \h1200 >>,   \* skips, jump
      << \h6102, \h5010, \h9010, \h0000, \hB20A, \h0000 >>,   \* skips, jump + V0
      << \h6007, \hE09E, \hE0A1, \hE09E >>,                   \* key skips
      << \h6011, \h6122, \h6233, \hA300, \hF255, \hF265 >>,   \* store, load
      << \h6F0F, \hAFF0, \hFF55, \hF065 >>,                   \* store V0..VF
      << \h6109, \hA202, \hF155, \hF029, \hF133 >>,           \* store over code
      << \h6003, \hF015, \hA050, \hD005, \h00E0, \h00E0 >>,   \* draw, clear
      << \h2204, \h1200, \h2208, \h00EE, \h00EE >>,           \* nested calls
      << \h2206, \h2206, \h1200, \h00EE >>,                   \* two calls
      << \hF00A, \hF10A, \h1200 >>,                           \* wait for keys
      << \h00E0, \hF00A >>,                                   \* clear, wait
      << \hA050, \hD005, \h7005, \hF01E >> }                  \* draw, add
    \cup UnknownPrograms \cup RoundTripPrograms

StepRoms == { FileOf(Bytes(ws)) : ws \in StepPrograms }

InitStep == InitWith(StepRoms)
SpecStep == InitStep /\ [][Next]_vars

----------------------------------------------------------------------------
(* C11: emulateCycle decodes memory[PC] * 256 + memory[PC + 1] and adds 2  *)
(* to PC before executing; an instruction that is no jump, call, return,   *)
(* taken skip or unsatisfied key wait leaves PC = old PC + 2; 6005, 7003   *)
(* leave V0 = 8 and PC = 0x204.                                            *)

\* key k is pressed, for a k that is the index of a key
Pressed(k) == k < NumKeys /\ chip8.keys[k]

\* the word op, executed in this state, is a jump, a call, a return, a skip
\* that is taken or a key wait with no key pressed
Transfers(op) ==
    LET vx == chip8.V[OpX(op)]
        vy == chip8.V[OpY(op)]
    IN \/ OpClass(op) \in {1, 2, 11}
       \/ op = \h00EE
       \/ OpClass(op) = 3 /\ vx = OpNN(op)
       \/ OpClass(op) = 4 /\ vx # OpNN(op)
       \/ OpClass(op) = 5 /\ vx = vy
       \/ OpClass(op) = 9 /\ vx # vy
       \/ OpClass(op) = 14 /\ OpNN(op) = \h9E /\ (Pressed(vx) \/ vx >= NumKeys)
       \/ OpClass(op) = 14 /\ OpNN(op) = \hA1 /\ ~Pressed(vx)
       \/ OpClass(op) = 15 /\ OpNN(op) = \h0A /\ \A k \in 0..15 : ~chip8.keys[k]

\* C11: a cycle executes the big-endian word at PC, and unless that word
\* transfers control it leaves PC = old PC + 2
C11_FetchAdvance ==
    [][ EmulateCycle /\ chip8.PC + 1 < MemSize =>
          /\ opcode' = WordAtPC
          /\ ~Transfers(WordAtPC) => chip8'.PC = chip8.PC + 2 ]_vars

\* 6005, 7003 has been stepped twice: V0 = 8 and PC = 0x204
C11_Witness ==
    /\ rom = FileOf(Bytes(<< \h6005, \h7003 >>))
    /\ cycles = 2
    /\ opcode = \h7003
    /\ chip8.V[0] = 8
    /\ chip8.PC = \h204

----------------------------------------------------------------------------
(* C12: at an Fx0A a step with no key pressed leaves PC at the instruction *)
(* and changes nothing; the first step with a key pressed leaves PC two    *)
(* past it and Vx holding a pressed key.                                   *)

\* a cycle that fetches an Fx0A word
WaitCycle ==
    /\ EmulateCycle
    /\ chip8.PC + 1 < MemSize
    /\ OpClass(WordAtPC) = 15
    /\ OpNN(WordAtPC) = \h0A

PressedKeys == {k \in 0..15 : chip8.keys[k]}

\* C12: an Fx0A step with no key pressed leaves the whole machine as it was,
\* PC at the instruction; with a key pressed it leaves PC + 2 and a pressed
\* key in Vx (7 when only key 7 is pressed) and changes nothing else
C12_KeyWait ==
    [][ WaitCycle =>
          LET x == OpX(WordAtPC)
          IN IF PressedKeys = {}
             THEN chip8' = chip8
             ELSE /\ chip8'.V[x] \in PressedKeys
                  /\ PressedKeys = {7} => chip8'.V[x] = 7
                  /\ chip8' = [chip8 EXCEPT !.PC = chip8.PC + 2,
                                            !.V[x] = chip8'.V[x]] ]_vars

\* F00A at 0x200 was stepped twice with no key pressed and a third time with
\* key 7 pressed: V0 = 7 and PC = 0x202
C12_Witness ==
    /\ rom = FileOf(Bytes(<< \hF00A, \hF10A, \h1200 >>))
    /\ cycles = 3
    /\ opcode = \hF00A
    /\ chip8.V[0] = 7
    /\ chip8.PC = \h202

----------------------------------------------------------------------------
(* C13: N consecutive decrementTimers calls take a delay timer D to        *)
(* max(D - N, 0) and a sound timer S to max(S - N, 0).                     *)

MaxTicks == 3

RECURSIVE Ticks(_, _)
\* the object s after n consecutive decrementTimers calls
Ticks(s, n) == IF n = 0 THEN s ELSE decrementTimers(Ticks(s, n - 1))

FloorAtZero(v) == IF v > 0 THEN v ELSE 0

\* C13: from every reachable state, n decrementTimers calls leave
\* delay_timer = max(D - n, 0) and sound_timer = max(S - n, 0), for every n
\* up to MaxTicks
C13_TimersFloor ==
    \A n \in 0..MaxTicks :
        LET s == Ticks(chip8, n)
        IN /\ s.delay_timer = FloorAtZero(chip8.delay_timer - n)
           /\ s.sound_timer = FloorAtZero(chip8.sound_timer - n)

\* both timers were set to 2 and ticked down; the last tick found the sound
\* timer already at 0 and left both at 0
C13_Witness ==
    /\ rom = FileOf(Bytes(<< \h6002, \hF018, \hF015, \hF007 >>))
    /\ opcode = \hF015
    /\ chip8.delay_timer = 0
    /\ chip8.sound_timer = 0
    /\ chip8.beepFlag = FALSE

----------------------------------------------------------------------------
(* C14: Fx55 copies V0..Vx into memory[I..I+x], changes no other memory    *)
(* byte and no register, and leaves I = old I + x + 1.                     *)

\* a cycle that fetches an Fx55 word whose x + 1 targets lie inside the memory
StoreCycle ==
    /\ EmulateCycle
    /\ chip8.PC + 1 < MemSize
    /\ OpClass(WordAtPC) = 15
    /\ OpNN(WordAtPC) = \h55
    /\ chip8.I + OpX(WordAtPC) < MemSize

\* C14: after Fx55 memory[I + i] = Vi for every i in 0..x, every other byte
\* of the memory and every register V0..VF is as before, and I = old I + x + 1
C14_StoreRegs ==
    [][ StoreCycle =>
          LET x == OpX(WordAtPC)
          IN /\ \A i \in 0..x :
                   Mem(chip8'.memory, chip8.I + i) = chip8.V[i]
             /\ \A a \in (0..MemSize - 1) \ (chip8.I .. chip8.I + x) :
                   Mem(chip8'.memory, a) = Mem(chip8.memory, a)
             /\ chip8'.V = chip8.V
             /\ chip8'.I = chip8.I + x + 1 ]_vars

\* F255 has stored V0 = 0x11, V1 = 0x22, V2 = 0x33 at 0x300: three bytes
\* written, the fourth untouched, I = 0x303
C14_Witness ==
    /\ opcode = \hF255
    /\ chip8.I = \h303
    /\ Mem(chip8.memory, \h300) = \h11
    /\ Mem(chip8.memory, \h301) = \h22
    /\ Mem(chip8.memory, \h302) = \h33
    /\ Mem(chip8.memory, \h303) = 0
    /\ chip8.V[2] = \h33

----------------------------------------------------------------------------
(* C15: after 00E0 every display cell is false and the changed flag is     *)
(* true, and no register, memory byte, stack slot or timer is modified.    *)

\* C15: 00E0 leaves gfx all-false and drawFlag true, PC two further, and
\* every other member (V, I, memory, stack, sp, timers, keys, beepFlag) as
\* it was
C15_Clear ==
    [][ Cycle(\h00E0) =>
          /\ \A idx \in 0..GfxSize - 1 : idx \notin chip8'.gfx
          /\ chip8'.drawFlag = TRUE
          /\ chip8' = [chip8 EXCEPT !.gfx = chip8'.gfx,
                                    !.drawFlag = TRUE,
                                    !.PC = chip8.PC + 2] ]_vars

\* 00E0 has cleared the display the font sprite "0" was drawn on while the
\* delay timer was running
C15_Witness ==
    /\ rom = FileOf(Bytes(<< \h6003, \hF015, \hA050, \hD005, \h00E0, \h00E0 >>))
    /\ cycles = 5
    /\ opcode = \h00E0
    /\ chip8.gfx = {}
    /\ chip8.drawFlag
    /\ chip8.V[15] = 0
    /\ chip8.I = \h050

----------------------------------------------------------------------------
(* C16: a word that matches none of the listed opcode patterns is a no-op: *)
(* PC ends at old PC + 2 and nothing else changes.                         *)

\* the words outside the listed patterns: 0nnn other than 00E0 and 00EE,
\* 5xyN and 9xyN with N # 0, 8xyN with N in 8..D or N = F, ExNN other than
\* 9E and A1, FxNN outside 07, 0A, 15, 18, 1E, 29, 33, 55, 65
Unlisted(op) ==
    \/ OpClass(op) = 0 /\ op \notin {\h00E0, \h00EE}
    \/ OpClass(op) \in {5, 9} /\ OpN(op) # 0
    \/ OpClass(op) = 8 /\ OpN(op) \in (8..13) \cup {15}
    \/ OpClass(op) = 14 /\ OpNN(op) \notin {\h9E, \hA1}
    \/ OpClass(op) = 15 /\
          OpNN(op) \notin {\h07, \h0A, \h15, \h18, \h1E, \h29, \h33, \h55, \h65}

\* C16: a cycle on an unlisted word leaves PC = old PC + 2 and every other
\* member as it was
C16_UnknownNoOp ==
    [][ EmulateCycle /\ chip8.PC + 1 < MemSize /\ Unlisted(WordAtPC) =>
          chip8' = [chip8 EXCEPT !.PC = chip8.PC + 2] ]_vars

----------------------------------------------------------------------------
(* C19: with two or more keys pressed Fx0A leaves the largest pressed      *)
(* index in Vx.                                                            *)

\* C19: an Fx0A step with at least two keys pressed leaves in Vx a pressed
\* key that no pressed key exceeds
C19_HighestKey ==
    [][ WaitCycle /\ Cardinality(PressedKeys) >= 2 =>
          LET x == OpX(WordAtPC)
          IN /\ chip8'.V[x] \in PressedKeys
             /\ \A k \in PressedKeys : k <= chip8'.V[x] ]_vars

\* F00A was stepped once with keys 3 and 7 both pressed: V0 = 7
C19_Witness ==
    /\ rom = FileOf(Bytes(<< \h00E0, \hF00A >>))
    /\ cycles = 2
    /\ opcode = \hF00A
    /\ chip8.keys[3] /\ chip8.keys[7]
    /\ chip8.PC = \h204
    /\ chip8.V[0] = 7

----------------------------------------------------------------------------
(* C20: with sp < 16, 2nnn at address a stores a + 2 in stack[sp],         *)
(* increases sp by one and sets PC = nnn; 00EE at the same depth sets      *)
(* PC = a + 2 and restores sp.                                             *)

\* a cycle that fetches a 2nnn word
CallCycle == EmulateCycle /\ chip8.PC + 1 < MemSize /\ OpClass(WordAtPC) = 2

\* C20: 2nnn with sp < 16 writes PC + 2 to stack[sp], adds 1 to sp, sets
\* PC = nnn and changes nothing else; 00EE with 1 <= sp <= 16 sets
\* PC = stack[sp - 1], subtracts 1 from sp and changes nothing else; every
\* other instruction leaves the stack and sp as they were, so the return
\* that follows a call at the same depth lands on the word after the call
C20_CallReturn ==
    [][ /\ CallCycle /\ chip8.sp < 16 =>
              chip8' = [chip8 EXCEPT !.stack[chip8.sp] = chip8.PC + 2,
                                     !.sp = chip8.sp + 1,
                                     !.PC = OpNNN(WordAtPC)]
        /\ Cycle(\h00EE) /\ chip8.sp \in 1..16 =>
              chip8' = [chip8 EXCEPT !.sp = chip8.sp - 1,
                                     !.PC = chip8.stack[chip8.sp - 1]]
        /\ EmulateCycle /\ chip8.PC + 1 < MemSize
              /\ OpClass(WordAtPC) # 2 /\ WordAtPC # \h00EE =>
              chip8'.stack = chip8.stack /\ chip8'.sp = chip8.sp ]_vars

\* 2204 at 0x200 and 2208 at 0x204 were called and both returned from: the
\* second return resumes at 0x202 with sp back at 0
C20_Witness ==
    /\ rom = FileOf(Bytes(<< \h2204, \h1200, \h2208, \h00EE, \h00EE >>))
    /\ cycles = 4
    /\ opcode = \h00EE
    /\ chip8.stack[0] = \h202
    /\ chip8.stack[1] = \h206
    /\ chip8.sp = 0
    /\ chip8.PC = \h202

----------------------------------------------------------------------------
(* The host of src/main.cpp: the launcher opens game windows on its one    *)
(* Chip8 object; every window's canvas owns a 60 Hz timer.  The event loop *)
(* runs one handler at a time, so while OnTimer is running (host.at # 0)   *)
(* only OnTimer's own calls happen.                                        *)

MaxGames == 2

Speeds == {"Slow", "Normal", "Fast", "Fastest"}

\* a slip that leaves cyclesToRun at its initial value
CyclesToRunDefault(emuSpeed) == 1

\* OnTimer's switch (emuSpeed)
CyclesToRun(emuSpeed) ==
    CASE emuSpeed = "Slow" -> 2
      [] emuSpeed = "Normal" -> 5
      [] emuSpeed = "Fast" -> 10
      [] emuSpeed = "Fastest" -> 20

\* Chip8Frame::OpenGame: a new Chip8FrameWithCanvas on the launcher's chip8;
\* its canvas starts a 60 Hz timer that first fires a period from now, and
\* its constructor ends with LoadROM: chip8->reset(), chip8->loadROM(path)
OpenGame ==
    /\ host.at = 0
    /\ Len(host.canvases) < MaxGames
    /\ LET r == loadROM(reset(chip8), rom)
       IN /\ chip8' = r.s
          /\ ret' = (IF r.ret THEN "true" ELSE "false")
    /\ opcode' = NoOpcode
    /\ cycles' = 0
    /\ host' = [host EXCEPT !.canvases =
                   Append(@, [paused |-> FALSE, emuSpeed |-> "Normal",
                              fired |-> TRUE])]
    /\ UNCHANGED rom

\* Chip8Canvas::OnTimer of canvas c up to its loop: the timer of c fires once
\* a period; a paused canvas returns at once
OnTimer(c) ==
    /\ host.at = 0
    /\ ~host.canvases[c].fired
    /\ host' = IF host.canvases[c].paused
               THEN [host EXCEPT !.canvases[c].fired = TRUE,
                                 !.steps = 0, !.ticks = 0]
               ELSE [host EXCEPT !.canvases[c].fired = TRUE,
                                 !.steps = 0, !.ticks = 0,
                                 !.at = c, !.i = 0,
                                 !.cyclesToRun =
                                     CyclesToRun(host.canvases[c].emuSpeed)]
    /\ UNCHANGED <<chip8, rom, ret, opcode, cycles>>

\* one pass of OnTimer's loop: chip8.emulateCycle()
OnTimerCycle ==
    /\ host.at # 0
    /\ host.i < host.cyclesToRun
    /\ \E op \in Fetch(chip8) :
         \E nd \in Choices(chip8, op) :
            /\ chip8' = Execute(chip8, op, nd)
            /\ opcode' = op
    /\ cycles' = (IF cycles < MaxCycles THEN cycles + 1 ELSE cycles)
    /\ host' = [host EXCEPT !.i = @ + 1, !.steps = @ + 1]
    /\ UNCHANGED <<rom, ret>>

\* a slip that lowers the changed flag once the window is repainted
OnTimerDecrementClears ==
    /\ host.at # 0
    /\ ~(host.i < host.cyclesToRun)
    /\ chip8' = [decrementTimers(chip8) EXCEPT !.drawFlag = FALSE]
    /\ host' = [host EXCEPT !.ticks = @ + 1, !.periodTicks = @ + 1,
                            !.at = 0, !.i = 0, !.cyclesToRun = 0]
    /\ UNCHANGED <<rom, ret, opcode, cycles>>

\* OnTimer after its loop: chip8.decrementTimers(), then the beep and
\* Refresh(), which touch nothing of the Chip8 object
OnTimerDecrement ==
    /\ host.at # 0
    /\ ~(host.i < host.cyclesToRun)
    /\ chip8' = decrementTimers(chip8)
    /\ host' = [host EXCEPT !.ticks = @ + 1, !.periodTicks = @ + 1,
                            !.at = 0, !.i = 0, !.cyclesToRun = 0]
    /\ UNCHANGED <<rom, ret, opcode, cycles>>

\* Chip8FrameWithCanvas::OnPause of window c
OnPause(c) ==
    /\ host.at = 0
    /\ host' = [host EXCEPT !.canvases[c].paused = ~@]
    /\ UNCHANGED <<chip8, rom, ret, opcode, cycles>>

\* Chip8FrameWithCanvas::OnSpeedChange of window c
OnSpeedChange(c, emuSpeed) ==
    /\ host.at = 0
    /\ host' = [host EXCEPT !.canvases[c].emuSpeed = emuSpeed]
    /\ UNCHANGED <<chip8, rom, ret, opcode, cycles>>

\* a 60 Hz period ends: every timer has fired once and is due again
Period ==
    /\ host.at = 0
    /\ host.canvases # << >>
    /\ \A c \in DOMAIN host.canvases : host.canvases[c].fired
    /\ host' = [host EXCEPT
                  !.canvases = [c \in DOMAIN @ |-> [@[c] EXCEPT !.fired = FALSE]],
                  !.periodTicks = 0]
    /\ UNCHANGED <<chip8, rom, ret, opcode, cycles>>

TimerFires == \E c \in DOMAIN host.canvases : OnTimer(c)

Pauses == \E c \in DOMAIN host.canvases : OnPause(c)

SpeedChanges ==
    \E c \in DOMAIN host.canvases : \E emuSpeed \in Speeds :
        OnSpeedChange(c, emuSpeed)

HostNext ==
    \/ OpenGame
    \/ TimerFires
    \/ OnTimerCycle
    \/ OnTimerDecrement
    \/ Pauses
    \/ SpeedChanges
    \/ Period

\* a game that clears the screen, sets both timers to 3 and then jumps to
\* itself
HostRoms == { FileOf(Bytes(<< \h00E0, \h6003, \hF015, \hF018, \h1208 >>)) }

InitHost == InitWith(HostRoms)
SpecHost == InitHost /\ [][HostNext]_vars

----------------------------------------------------------------------------
(* C17: a timer event handled while not paused makes exactly N             *)
(* emulateCycle calls (2, 5, 10, 20 for Slow, Normal, Fast, Fastest) and   *)
(* then exactly one decrementTimers call.                                  *)

\* the number of steps per event the four speeds stand for
StepsPerEvent ==
    [emuSpeed \in Speeds |->
        IF emuSpeed = "Slow" THEN 2
        ELSE IF emuSpeed = "Normal" THEN 5
        ELSE IF emuSpeed = "Fast" THEN 10 ELSE 20]

\* C17: within a timer event no emulateCycle call follows a decrementTimers
\* call; the event's one decrementTimers call comes after exactly N
\* emulateCycle calls, N given by the speed of the canvas, and ends the
\* event; an event that has begun makes no other call
C17_StepsThenOneTick ==
    [][ /\ OnTimerCycle => host.ticks = 0 /\ host.steps < host.cyclesToRun
        /\ OnTimerDecrement =>
              /\ host.steps = StepsPerEvent[host.canvases[host.at].emuSpeed]
              /\ host.ticks = 0
              /\ host'.ticks = 1
              /\ host'.steps = host.steps
              /\ host'.at = 0
        /\ host.at # 0 => OnTimerCycle \/ OnTimerDecrement
        /\ TimerFires /\ host'.at # 0 =>
              /\ ~host.canvases[host'.at].paused
              /\ host'.steps = 0 /\ host'.ticks = 0
        /\ TimerFires /\ host'.at = 0 => chip8' = chip8 ]_vars

\* an event of a canvas running at Fastest has ended: 20 steps, one tick
C17_Witness ==
    /\ host.at = 0
    /\ host.steps = 20
    /\ host.ticks = 1
    /\ \E c \in DOMAIN host.canvases : host.canvases[c].emuSpeed = "Fastest"

----------------------------------------------------------------------------
(* C18: however many game windows are open, the one VM receives            *)
(* decrementTimers once per 60 Hz period.                                  *)

\* C18: no 60 Hz period holds more than one decrementTimers call
C18_OneTickPerPeriod == host.periodTicks <= 1

----------------------------------------------------------------------------
(* Programs for the remaining 8xyN instructions, the skips and Fx33.       *)

OpsSelectors == {0, 1, 15}

\* 6xaa, 6ybb, 8xyn for x, y of OpsSelectors, aa, bb of AluVals and the
\* three instructions 8xy6, 8xy7, 8xyE
ShiftSubnRoms ==
    { FileOf(Bytes(<< \h6000 + x * 256 + a, \h6000 + y * 256 + b,
                      \h8000 + x * 256 + y * 16 + n >>)) :
        <<x, y, a, b, n>> \in
            OpsSelectors \X OpsSelectors \X AluVals \X AluVals \X {6, 7, 14} }

SkipWords ==
    { \h3003, \h3004, \h4003, \h4004, \h5010, \h5100, \h9010, \h9100,
      \h3FC8, \h4FC8, \h5F10, \h9F10 }

\* 6003, 61bb, 6FC8 and a skip, then 7101 and 7201 to see where PC lands
SkipRoms ==
    { FileOf(Bytes(<< \h6003, \h6100 + b, \h6FC8, w, \h7101, \h7201 >>)) :
        <<b, w>> \in {3, 200} \X SkipWords }

\* 60vv, A300, F033 for every byte vv
BcdRoms ==
    { FileOf(Bytes(<< \h6000 + v, \hA300, \hF033 >>)) : v \in 0..255 }

OpsRoms == ShiftSubnRoms \cup SkipRoms \cup BcdRoms

InitOps == InitWith(OpsRoms)
SpecOps == InitOps /\ [][Next]_vars

----------------------------------------------------------------------------
(* C21: 8xy7: VF = 1 exactly when old Vy >= old Vx, and Vx = (old Vy - old *)
(* Vx) mod 256, for every x and y in 0..F.                                 *)

\* C21, Vx and VF being one register when x = F: after 8xy7 VF is 1 exactly
\* when old Vy >= old Vx, for every x and y, and Vx is (old Vy - old Vx)
\* mod 256 for every x other than F
C21_Subn ==
    [][ AluCycle(7) =>
          LET x == OpX(WordAtPC)
              y == OpY(WordAtPC)
          IN /\ chip8'.V[15] = (IF chip8.V[y] >= chip8.V[x] THEN 1 ELSE 0)
             /\ x # 15 =>
                   chip8'.V[x] = (chip8.V[y] - chip8.V[x] + 256) % 256 ]_vars

----------------------------------------------------------------------------
(* C22: 8xy6 sets VF to bit 0 of the old Vx and Vx to old Vx div 2; 8xyE   *)
(* sets VF to bit 7 of the old Vx and Vx to (2 * old Vx) mod 256; Vy has   *)
(* no influence and is left unchanged.                                     *)

\* the flag and the result the two shifts are described to leave
ShiftFlag(n, v) == IF n = 6 THEN v % 2 ELSE (v \div 128) % 2
ShiftValue(n, v) == IF n = 6 THEN v \div 2 ELSE (2 * v) % 256

\* C22, Vx and VF being one register when x = F: after 8xy6 (8xyE) VF is bit
\* 0 (bit 7) of the old Vx for every x and y, Vx is the old Vx shifted by one
\* for every x other than F, and every register other than Vx and VF, Vy
\* among them, keeps its value
C22_Shifts ==
    [][ AluCycle(6) \/ AluCycle(14) =>
          LET x == OpX(WordAtPC)
              n == OpN(WordAtPC)
          IN /\ chip8'.V[15] = ShiftFlag(n, chip8.V[x])
             /\ x # 15 => chip8'.V[x] = ShiftValue(n, chip8.V[x])
             /\ \A r \in 0..15 \ {x, 15} : chip8'.V[r] = chip8.V[r] ]_vars

----------------------------------------------------------------------------
(* C23: after Dxyn VF = 1 if at least one pixel went from set to unset     *)
(* during the draw and VF = 0 otherwise, whatever VF held before; the      *)
(* changed flag is true even when n = 0 or no pixel changed; I and the     *)
(* memory are not modified.                                                *)

\* C23: a draw leaves VF = 1 exactly when a lit cell went dark, drawFlag
\* true, and I and the memory as they were
C23_DrawFlags ==
    [][ DrawCycle =>
          /\ chip8'.V[15] = (IF chip8.gfx \ chip8'.gfx # {} THEN 1 ELSE 0)
          /\ chip8'.drawFlag
          /\ chip8'.I = chip8.I
          /\ chip8'.memory = chip8.memory ]_vars

\* 6039 6F1E A20A D0F1: VF held 30 and the collision-free draw left 0
C23_Witness ==
    /\ cycles = 4
    /\ opcode = \hD0F1
    /\ Mem(chip8.memory, ProgStart + 2) = \h6F
    /\ Mem(chip8.memory, ProgStart + 3) = 30
    /\ chip8.gfx # {}
    /\ chip8.V[15] = 0
    /\ chip8.drawFlag

----------------------------------------------------------------------------
(* C24: for every x and y in 0..F, F included, Dxyn places the sprite's    *)
(* top-left corner at (Vx mod 64, Vy mod 32), Vx and Vy being the values   *)
(* held when the instruction starts.                                       *)

\* the cell of column Vx mod 64 and row Vy mod 32, of the registers as they
\* are before the cycle
CornerCell ==
    (chip8.V[OpY(WordAtPC)] % ScreenH) * ScreenW
        + (chip8.V[OpX(WordAtPC)] % ScreenW)

\* C24: a draw of a sprite whose top-left bit is set flips the cell at
\* (Vx mod 64, Vy mod 32) of the values the registers hold when it starts
C24_Origin ==
    [][ DrawCycle /\ OpN(WordAtPC) >= 1 /\ SpriteBit(0, 0) =>
          (CornerCell \in chip8'.gfx) # (CornerCell \in chip8.gfx) ]_vars

----------------------------------------------------------------------------
(* C25: a step that executes any opcode other than 00E0 or Dxyn leaves     *)
(* every display cell and the changed flag unchanged, and decrementTimers  *)
(* never changes them.                                                     *)

\* a cycle that fetches, inside the memory, a word that is neither 00E0 nor
\* Dxyn
OtherCycle ==
    /\ EmulateCycle
    /\ chip8.PC + 1 < MemSize
    /\ WordAtPC # \h00E0
    /\ OpClass(WordAtPC) # 13

\* C25: neither a cycle of an opcode other than 00E0 and Dxyn nor a call of
\* decrementTimers changes gfx or drawFlag
C25_DisplayWriters ==
    [][ OtherCycle \/ DecrementTimers =>
          /\ chip8'.gfx = chip8.gfx
          /\ chip8'.drawFlag = chip8.drawFlag ]_vars

\* A050 D005 7005: the add after the draw left the glyph and the flag alone
C25_Witness ==
    /\ cycles = 3
    /\ opcode = \h7005
    /\ chip8.V[0] = 5
    /\ chip8.gfx # {}
    /\ chip8.drawFlag

----------------------------------------------------------------------------
(* C26: no emulateCycle call and no decrementTimers call changes any of    *)
(* the 16 key flags, for any opcode, Ex9E, ExA1 and Fx0A included.         *)

\* C26: a cycle or a timer tick leaves keys[] as it was
C26_KeysReadOnly ==
    [][ EmulateCycle \/ DecrementTimers => chip8'.keys = chip8.keys ]_vars

\* F00A F10A: the first wait read key 7 and the flag is still set
C26_Witness ==
    /\ cycles = 1
    /\ opcode = \hF00A
    /\ WordAtPC = \hF10A
    /\ chip8.V[0] = 7
    /\ chip8.keys[7]
    /\ ~chip8.keys[3]

----------------------------------------------------------------------------
(* C27: Fx65 sets Vi = memory[I + i] for every i in 0..x, leaves memory    *)
(* unchanged and I = old I + x + 1; with I = a and a + x <= 4095, Fx55,    *)
(* arbitrary changes to V0..Vx, Annn restoring I = a, then Fx65 leave      *)
(* V0..Vx equal to their values before the Fx55.                           *)

\* a cycle that fetches an Fx65 word whose x + 1 sources lie inside the memory
LoadCycle ==
    /\ EmulateCycle
    /\ chip8.PC + 1 < MemSize
    /\ OpClass(WordAtPC) = 15
    /\ OpNN(WordAtPC) = \h65
    /\ chip8.I + OpX(WordAtPC) < MemSize

\* the last cycle of a program of RoundTripPrograms: its Fx65
RoundTripLoad ==
    /\ LoadCycle
    /\ cycles = 5
    /\ chip8.PC = ProgStart + 10
    /\ Mem(chip8.memory, ProgStart + 6) = \hC0

\* C27: after Fx65 Vi = memory[I + i] for every i in 0..x, the memory is as
\* before and I = old I + x + 1; and after Fx55, a random V0, Annn and Fx65
\* V0 and V1 are what they were before the Fx55
C27_LoadRegs ==
    [][ /\ LoadCycle =>
             LET x == OpX(WordAtPC)
             IN /\ \A i \in 0..x :
                      chip8'.V[i] = Mem(chip8.memory, chip8.I + i)
                /\ chip8'.memory = chip8.memory
                /\ chip8'.I = chip8.I + x + 1
        /\ RoundTripLoad =>
             /\ chip8'.V[0] = Mem(chip8.memory, ProgStart + 1)
             /\ chip8'.V[1] = 0 ]_vars

\* 60C8 A300 F155 C0FF A300 F165: V0 = 200 came back from memory[0x300]
C27_Witness ==
    /\ cycles = 6
    /\ opcode = \hF165
    /\ Mem(chip8.memory, ProgStart + 6) = \hC0
    /\ Mem(chip8.memory, ProgStart + 1) = 200
    /\ Mem(chip8.memory, \h300) = 200
    /\ chip8.V[0] = 200
    /\ chip8.I = \h302

----------------------------------------------------------------------------
(* C28: for every Vx in 0..255, Fx33 stores Vx div 100 at memory[I],       *)
(* (Vx div 10) mod 10 at memory[I + 1] and Vx mod 10 at memory[I + 2]; I   *)
(* and all registers are unchanged.                                        *)

\* a cycle that fetches an Fx33 word whose three targets lie inside the memory
BcdCycle ==
    /\ EmulateCycle
    /\ chip8.PC + 1 < MemSize
    /\ OpClass(WordAtPC) = 15
    /\ OpNN(WordAtPC) = \h33
    /\ chip8.I + 2 < MemSize

\* C28: Fx33 leaves the hundreds, tens and ones digit of Vx at memory[I],
\* memory[I + 1] and memory[I + 2], each in 0..9 and together worth Vx, and
\* leaves I and the registers as they were
C28_Bcd ==
    [][ BcdCycle =>
          LET vx == chip8.V[OpX(WordAtPC)]
              d(k) == Mem(chip8'.memory, chip8.I + k)
          IN /\ d(0) = vx \div 100
             /\ d(1) = (vx \div 10) % 10
             /\ d(2) = vx % 10
             /\ \A k \in 0..2 : d(k) \in 0..9
             /\ 100 * d(0) + 10 * d(1) + d(2) = vx
             /\ chip8'.I = chip8.I
             /\ chip8'.V = chip8.V ]_vars

\* 609C A300 F033: 156 is stored as 1, 5, 6
C28_Witness ==
    /\ opcode = \hF033
    /\ chip8.V[0] = 156
    /\ chip8.I = \h300
    /\ Mem(chip8.memory, \h300) = 1
    /\ Mem(chip8.memory, \h301) = 5
    /\ Mem(chip8.memory, \h302) = 6

----------------------------------------------------------------------------
(* C29: 3xnn, 4xnn, 5xy0 and 9xy0 leave PC at old PC + 4 when their        *)
(* condition holds (Vx = nn, Vx != nn, Vx = Vy, Vx != Vy) and at old       *)
(* PC + 2 otherwise, and change no register, memory byte, display cell,    *)
(* stack slot or timer.                                                    *)

\* the word op is 3xnn, 4xnn, 5xy0 or 9xy0
IsSkip(op) ==
    \/ OpClass(op) \in {3, 4}
    \/ OpClass(op) \in {5, 9} /\ OpN(op) = 0

\* the condition the claim gives the skip op, on the registers of this state
SkipCondition(op) ==
    CASE OpClass(op) = 3 -> chip8.V[OpX(op)] = OpNN(op)
      [] OpClass(op) = 4 -> chip8.V[OpX(op)] # OpNN(op)
      [] OpClass(op) = 5 -> chip8.V[OpX(op)] = chip8.V[OpY(op)]
      [] OTHER -> chip8.V[OpX(op)] # chip8.V[OpY(op)]

\* C29: a skip instruction changes PC alone, by 4 when its condition holds
\* and by 2 when it does not
C29_Skips ==
    [][ EmulateCycle /\ chip8.PC + 1 < MemSize /\ IsSkip(WordAtPC) =>
          chip8' = [chip8 EXCEPT
                      !.PC = @ + (IF SkipCondition(WordAtPC) THEN 4 ELSE 2)] ]_vars

\* 6003 6103 6FC8 5100: V1 = V0, so the 7101 at 0x208 is skipped
C29_Witness ==
    /\ cycles = 4
    /\ opcode = \h5100
    /\ chip8.V[0] = 3
    /\ chip8.V[1] = 3
    /\ chip8.PC = \h20A

----------------------------------------------------------------------------
(* C30: a key the host presses and releases again between two consecutive  *)
(* emulateCycle calls is never observed: every later VM state is the same  *)
(* as if the key had not been pressed, the core keeping no buffered key    *)
(* events.                                                                 *)

\* the object after key is pressed and released with no call in between
Tapped(s, key) == SetKey(SetKey(s, key, TRUE), key, FALSE)

\* C30: in every state the program reaches, pressing and releasing a key
\* that is up leaves the whole object, and so every later cycle, as it was
C30_TapUnseen ==
    \A key \in 0..NumKeys - 1 :
        ~chip8.keys[key] => Tapped(chip8, key) = chip8

\* F00A found no key and is about to run again: a tap of key 7 in between
\* leaves it waiting
C30_Witness ==
    /\ cycles = 1
    /\ opcode = \hF00A
    /\ WordAtPC = \hF00A
    /\ chip8.PC = ProgStart
    /\ \A key \in 0..NumKeys - 1 : ~chip8.keys[key]
    /\ Tapped(chip8, 7) = chip8

----------------------------------------------------------------------------
(* C31: whenever Ex9E or ExA1 executes in a reachable state, the key flag  *)
(* it tests has an index in 0..15.                                         *)

\* a cycle that fetches, inside the memory, an Ex9E or ExA1 word
KeySkipCycle ==
    /\ EmulateCycle
    /\ chip8.PC + 1 < MemSize
    /\ OpClass(WordAtPC) = 14
    /\ OpNN(WordAtPC) \in {\h9E, \hA1}

\* C31: the index V[x] of the flag Ex9E and ExA1 read is below 16
C31_KeyIndexInside ==
    [][ KeySkipCycle => chip8.V[OpX(WordAtPC)] \in 0..NumKeys - 1 ]_vars

----------------------------------------------------------------------------
(* C32: in every reachable state in which emulateCycle is called,          *)
(* PC <= 0xFFE, so both fetched bytes lie inside the 4096-byte memory.     *)

\* C32, for the programs that never return from an empty stack: every cycle
\* starts with PC at 0xFFE or below
C32_FetchInside ==
    [][ EmulateCycle /\ chip8.sp <= StackSize => chip8.PC <= MemSize - 2 ]_vars

----------------------------------------------------------------------------
(* C33: once 00E0 or Dxyn has raised the changed flag, it stays true       *)
(* through every later step, tick and host timer event; only reset or load *)
(* lowers it.                                                              *)

\* C33: a step of the host that is not the reset and load of a game being
\* opened leaves a raised drawFlag raised
C33_FlagStaysRaised ==
    [][ chip8.drawFlag /\ ~OpenGame => chip8'.drawFlag ]_vars

\* a timer event has run its steps and its tick after the game's 00E0, and
\* the flag is still up
C33_Witness ==
    /\ host.at = 0
    /\ host.ticks = 1
    /\ opcode = \h1208
    /\ chip8.delay_timer = 2
    /\ chip8.drawFlag

----------------------------------------------------------------------------
(* C34: while the host is paused, timer events perform no emulateCycle and *)
(* no decrementTimers call, so PC, registers, memory, display, stack and   *)
(* both timers stay unchanged until resume; toggling pause twice returns   *)
(* the host to running with the VM state it had when paused.               *)

\* the window opened last, the one whose game the VM holds, is paused
GamePaused ==
    /\ host.canvases # << >>
    /\ host.canvases[Len(host.canvases)].paused

\* C34: while the game's window is paused and no other game is opened, no
\* emulateCycle and no decrementTimers call is made and everything of the VM
\* but the key flags stays as it is
C34_PausedStandsStill ==
    [][ GamePaused /\ ~OpenGame =>
          /\ ~OnTimerCycle
          /\ ~OnTimerDecrement
          /\ [chip8' EXCEPT !.keys = chip8.keys] = chip8 ]_vars

====
